---------------------------- MODULE Spec2Model ----------------------------
(***************************************************************************)
(* Hilbert-ND (src/main.cpp): Skilling's in-place transforms between the   *)
(* axes of a point and its Hilbert transpose, and the two routines that    *)
(* pack a transpose into one scalar code and unpack it again.              *)
(*                                                                         *)
(* A coord_t / unsigned int is a 32-bit word.  A word is modelled by the   *)
(* set of the positions of its 1 bits (0 = least significant), so that     *)
(* every value of the full width is a value of the model: ^ is the         *)
(* symmetric difference, & the intersection, | the union, and a shift      *)
(* moves the positions and drops those that leave the word.  W(x) and      *)
(* Val(w) convert between a word and the number it holds.                  *)
(*                                                                         *)
(* The buffer X is a function on 0 .. n-1, the indices of the C array.     *)
(***************************************************************************)
EXTENDS Integers, Sequences, FiniteSets

\* ------------------------------------------------------------------ bounds

\* Largest dimension count n of the exhaustively enumerated inputs.
MaxN == 4

\* Largest bit count b of the exhaustively enumerated inputs.
MaxB == 5

\* Largest n*b of the exhaustively enumerated inputs.
MaxBits == 9

\* Largest n of the full-width (b = CoordBits) sample inputs.
MaxFullN == 2

\* ------------------------------------------------------------------- words

\* typedef unsigned int coord_t: the width of a word.
CoordBits == 32

Bits == 0 .. (CoordBits - 1)

Zero == {}

MinOf(S) == CHOOSE p \in S : \A q \in S : p <= q

Xor(a, c) == (a \ c) \cup (c \ a)

And(a, c) == a \cap c

Or(a, c) == a \cup c

\* a << k and a >> k on a word, for a shift count k below the width (a count
\* of CoordBits or more is undefined in C; no input below reaches one: the
\* largest count is 3 * b + n - 1, in uninterleaveBits).
Shl(a, k) == {p + k : p \in a} \cap Bits

Shr(a, k) == {p - k : p \in a} \cap Bits

\* a - 1 modulo 2^CoordBits.
Dec(a) == IF a = {} THEN Bits ELSE (a \ {MinOf(a)}) \cup (0 .. (MinOf(a) - 1))

\* GtOne with the loop test written Q > 0.
GtOneAsNonZero(a) == a # {}

\* a > 1 on unsigned words.
GtOne(a) == \E p \in a : p >= 1

RECURSIVE Pow2(_)
Pow2(k) == IF k = 0 THEN 1 ELSE 2 * Pow2(k - 1)

\* The word holding the number x, 0 <= x < 2^31.
W(x) == {p \in 0 .. 30 : (x \div Pow2(p)) % 2 = 1}

\* The number a word holds (for words below 2^31).
RECURSIVE Val(_)
Val(a) == IF a = {} THEN 0 ELSE Pow2(MinOf(a)) + Val(a \ {MinOf(a)})

\* ------------------------------------------------- the transforms' pieces

\* M = 1 << (b - 1)   (AxestoTranspose)
TopBit(bb) == Shl(W(1), bb - 1)

\* EndBit with the shifted constant of M: N = 1 << (b - 1).
EndBitOffByOne(bb) == Shl(W(1), bb - 1)

\* N = 2 << (b - 1)   (TransposetoAxes); the shift wraps modulo 2^CoordBits,
\* so N is 0 when b = CoordBits.
EndBit(bb) == Shl(W(2), bb - 1)

\* InvertExchange with the branches taken the other way round: exchange
\* when X[i] has bit Q, invert when it has not.
InvertExchangeSwapped(x, d, q) ==
    IF And(x[d], q) = Zero
    THEN [x EXCEPT ![0] = Xor(@, Dec(q))]
    ELSE LET tt == And(Xor(x[0], x[d]), Dec(q))
             x1 == [x EXCEPT ![0] = Xor(@, tt)]
         IN  [x1 EXCEPT ![d] = Xor(@, tt)]

\* InvertExchange with the mask P = Q in place of P = Q - 1.
InvertExchangeFullMask(x, d, q) ==
    IF And(x[d], q) # Zero
    THEN [x EXCEPT ![0] = Xor(@, q)]
    ELSE LET tt == And(Xor(x[0], x[d]), q)
             x1 == [x EXCEPT ![0] = Xor(@, tt)]
         IN  [x1 EXCEPT ![d] = Xor(@, tt)]

\* One pass of the body of the dimension loop, at dimension i and plane Q:
\* invert the low bits of X[0] when X[i] has bit Q, else exchange the low
\* bits of X[0] and X[i].
InvertExchange(x, d, q) ==
    IF And(x[d], q) # Zero
    THEN [x EXCEPT ![0] = Xor(@, Dec(q))]
    ELSE LET tt == And(Xor(x[0], x[d]), Dec(q))
             x1 == [x EXCEPT ![0] = Xor(@, tt)]
         IN  [x1 EXCEPT ![d] = Xor(@, tt)]

\* The local t after the same pass: the exchange branch assigns
\* t = (X[0] ^ X[i]) & P, the invert branch leaves t as it is.
ExchangeTerm(x, d, q, tt) ==
    IF And(x[d], q) # Zero THEN tt ELSE And(Xor(x[0], x[d]), Dec(q))

\* X[i] ^= X[i - 1]
GrayXor(x, d) == [x EXCEPT ![d] = Xor(@, x[d - 1])]

\* Correction that never accumulates: t stays as it is.
CorrectionDropped(x, nn, q, tt) == tt

\* if (X[n - 1] & Q) t ^= Q - 1
Correction(x, nn, q, tt) == IF And(x[nn - 1], q) # Zero THEN Xor(tt, Dec(q)) ELSE tt


\* ------------------------------------------- the transforms as functions

\* for (int i = n - 1; i > 0; i--) X[i] ^= X[i - 1];
RECURSIVE T2A_GrayLoop(_, _)
T2A_GrayLoop(x, d) ==
    IF d > 0 THEN T2A_GrayLoop(GrayXor(x, d), d - 1) ELSE x

\* for (int i = n - 1; i >= 0; i--) { invert or exchange }
RECURSIVE T2A_DimLoop(_, _, _)
T2A_DimLoop(x, d, q) ==
    IF d >= 0 THEN T2A_DimLoop(InvertExchange(x, d, q), d - 1, q) ELSE x

\* for (Q = 2; Q != N; Q <<= 1) { ... }
RECURSIVE T2A_PlaneLoop(_, _, _, _)
T2A_PlaneLoop(x, nn, q, N) ==
    IF q # N
    THEN T2A_PlaneLoop(T2A_DimLoop(x, nn - 1, q), nn, Shl(q, 1), N)
    ELSE x

\* TransposetoAxes(X, b, n): the buffer it leaves.
TransposetoAxes(x, bb, nn) ==
    LET tt == Shr(x[nn - 1], 1)
        x1 == T2A_GrayLoop(x, nn - 1)
        x2 == [x1 EXCEPT ![0] = Xor(@, tt)]
    IN  T2A_PlaneLoop(x2, nn, W(2), EndBit(bb))

\* for (int i = 0; i < n; i++) { invert or exchange }
RECURSIVE A2T_DimLoop(_, _, _, _)
A2T_DimLoop(x, nn, d, q) ==
    IF d < nn THEN A2T_DimLoop(InvertExchange(x, d, q), nn, d + 1, q) ELSE x

\* for (Q = M; Q > 1; Q >>= 1) { ... }
RECURSIVE A2T_PlaneLoop(_, _, _)
A2T_PlaneLoop(x, nn, q) ==
    IF GtOne(q)
    THEN A2T_PlaneLoop(A2T_DimLoop(x, nn, 0, q), nn, Shr(q, 1))
    ELSE x

\* for (int i = 1; i < n; i++) X[i] ^= X[i - 1];
RECURSIVE A2T_GrayLoop(_, _, _)
A2T_GrayLoop(x, nn, d) ==
    IF d < nn THEN A2T_GrayLoop(GrayXor(x, d), nn, d + 1) ELSE x

\* t = 0; for (Q = M; Q > 1; Q >>= 1) if (X[n - 1] & Q) t ^= Q - 1;
RECURSIVE A2T_CorrectionLoop(_, _, _, _)
A2T_CorrectionLoop(x, nn, q, tt) ==
    IF GtOne(q)
    THEN A2T_CorrectionLoop(x, nn, Shr(q, 1), Correction(x, nn, q, tt))
    ELSE tt

\* AxestoTranspose(X, b, n): the buffer it leaves.
AxestoTranspose(x, bb, nn) ==
    LET x1 == A2T_PlaneLoop(x, nn, TopBit(bb))
        x2 == A2T_GrayLoop(x1, nn, 1)
        tt == A2T_CorrectionLoop(x2, nn, TopBit(bb), Zero)
    IN  [d \in 0 .. (nn - 1) |-> Xor(x2[d], tt)]

\* ------------------------------------------------- packing and unpacking

\* for (i = 0, andbit = 1; i < nbits2; i += 2, andbit <<= 1)
\*     for (j = 0; j < n; ++j) coden[j] |= (X[j] & andbit) << i;
RECURSIVE SpreadLoop(_, _, _, _, _, _)
SpreadLoop(coden, x, nn, d, andbit, nbits2) ==
    IF d < nbits2
    THEN SpreadLoop([j \in 0 .. (nn - 1) |->
                        Or(coden[j], Shl(And(x[j], andbit), d))],
                    x, nn, d + 2, Shl(andbit, 1), nbits2)
    ELSE coden

\* CombineLoop with dimension j shifted by n - j.
RECURSIVE CombineLoopShifted(_, _, _, _)
CombineLoopShifted(res, coden, nn, j) ==
    IF j < nn
    THEN CombineLoopShifted(Or(res, Shl(coden[j], nn - j)), coden, nn, j + 1)
    ELSE res

\* for (j = 1; j < n; ++j) res |= (coden[j] << (n - j - 1));
RECURSIVE CombineLoop(_, _, _, _)
CombineLoop(res, coden, nn, j) ==
    IF j < nn
    THEN CombineLoop(Or(res, Shl(coden[j], nn - j - 1)), coden, nn, j + 1)
    ELSE res

\* interleaveBits(X, b, n): the bits of the int it returns.  The scratch array
\* coden lives inside the call (malloc is taken to succeed).
interleaveBits(x, bb, nn) ==
    LET coden == SpreadLoop([j \in 0 .. (nn - 1) |-> Zero], x, nn, 0, W(1), 2 * bb)
    IN  CombineLoop(Shl(coden[0], nn - 1), coden, nn, 1)

\* for (j = 0; j < n; ++j)
\*     X[n-j-1] |= (code & (selector << (shift_selector + j))) >> (shiftback + j);
RECURSIVE SelectLoop(_, _, _, _, _)
SelectLoop(x, nn, c, d, j) ==
    IF j < nn
    THEN SelectLoop([x EXCEPT ![nn - j - 1] =
                        Or(@, Shr(And(c, Shl(W(1), 3 * d + j)), 2 * d + j))],
                    nn, c, d, j + 1)
    ELSE x

\* for (i = 0; i <= b; ++i) { ... }
RECURSIVE LevelLoop(_, _, _, _, _)
LevelLoop(x, bb, nn, c, d) ==
    IF d <= bb
    THEN LevelLoop(SelectLoop(x, nn, c, d, 0), bb, nn, c, d + 1)
    ELSE x

\* uninterleaveBits(X, b, n, code): the buffer it leaves.
uninterleaveBits(bb, nn, c) ==
    LevelLoop([d \in 0 .. (nn - 1) |-> Zero], bb, nn, c, 0)

\* ------------------------------------------------------------- the state

VARIABLES
    X,       \* the caller's buffer, coord_t X[n]
    b,       \* #bits per coordinate
    n,       \* dimension
    code,    \* the scalar code: interleaveBits' result, uninterleaveBits' argument
    X0,      \* the buffer as the caller first filled it
    driver,  \* the calls the caller makes, in order
    ret,     \* how many of them have returned
    pc,      \* the position inside the running transform, "idle" between calls
    Q,       \* the transforms' local Q (bit plane)
    t,       \* the transforms' local t
    i        \* the transforms' loop index

vars == <<X, b, n, code, X0, driver, ret, pc, Q, t, i>>

\* main(): AxestoTranspose, interleaveBits, uninterleaveBits, TransposetoAxes.
MainCalls ==
    <<"AxestoTranspose", "interleaveBits", "uninterleaveBits", "TransposetoAxes">>

\* Other callers of the four entry points: a transform and its inverse, the
\* inverse transform alone, packing and unpacking, unpacking alone.
AxesCalls == <<"AxestoTranspose", "TransposetoAxes">>

TransposeCalls == <<"TransposetoAxes">>

PackCalls == <<"interleaveBits", "uninterleaveBits">>

UnpackCalls == <<"uninterleaveBits">>

\* coord_t X[3] = {5, 10, 20}, b = 5, n = 3.
MainAxes == <<5, 10, 20>>

MainB == 5

MainN == 3

MainX == [d \in 0 .. (MainN - 1) |-> W(MainAxes[d + 1])]

\* The b-bit coordinate values, [0, 2^b - 1].
Values(bb) == SUBSET (0 .. (bb - 1))

Vectors(nn, bb) == [0 .. (nn - 1) -> Values(bb)]

ZeroVector(nn) == [d \in 0 .. (nn - 1) |-> Zero]

\* The (n, b) enumerated exhaustively.
Shapes == {s \in (1 .. MaxN) \X (1 .. MaxB) : s[1] * s[2] <= MaxBits}

\* Full-width coordinates (b = CoordBits): 0, 2^32 - 1, 2^31, 2^31 + 1,
\* 0x55555555.
FullSamples ==
    {Zero, Bits, {CoordBits - 1}, {0, CoordBits - 1}, {p \in Bits : p % 2 = 0}}

\* One call sequence on one buffer.
Input(nn, bb, v, c, calls) ==
    [n |-> nn, b |-> bb, X |-> v, code |-> c, driver |-> calls]

\* Every vector of every enumerated shape, under each caller that starts
\* from a filled buffer.
SmallInputs ==
    UNION {{Input(s[1], s[2], v, Zero, calls) :
                v \in Vectors(s[1], s[2]),
                calls \in {MainCalls, AxesCalls, TransposeCalls, PackCalls}} :
           s \in Shapes}

\* Every code of n*b bits of every enumerated shape, unpacked into a buffer.
CodeInputs ==
    UNION {{Input(s[1], s[2], ZeroVector(s[1]), c, UnpackCalls) :
                c \in SUBSET (0 .. (s[1] * s[2] - 1))} :
           s \in Shapes}

\* main()'s own buffer.
MainInputs ==
    {Input(MainN, MainB, MainX, Zero, calls) : calls \in {MainCalls, AxesCalls}}

\* Full-width buffers, for the transforms.
FullInputs ==
    UNION {{Input(nn, CoordBits, v, Zero, calls) :
                v \in [0 .. (nn - 1) -> FullSamples],
                calls \in {AxesCalls, TransposeCalls}} :
           nn \in 1 .. MaxFullN}

Inputs == SmallInputs \cup CodeInputs \cup MainInputs \cup FullInputs

Init ==
    \E in \in Inputs :
        /\ X = in.X
        /\ b = in.b
        /\ n = in.n
        /\ code = in.code
        /\ X0 = in.X
        /\ driver = in.driver
        /\ ret = 0
        /\ pc = "idle"
        /\ Q = Zero
        /\ t = Zero
        /\ i = 0

\* The next call the caller makes.
Calls(f) == pc = "idle" /\ ret < Len(driver) /\ driver[ret + 1] = f

\* A transform returns: its locals are gone.
Return ==
    /\ pc' = "idle"
    /\ ret' = ret + 1
    /\ Q' = Zero
    /\ t' = Zero
    /\ i' = 0

\* ------------------------------------------------------- AxestoTranspose

\* coord_t M = 1 << (b - 1); Q = M
A2T_Call ==
    /\ Calls("AxestoTranspose")
    /\ Q' = TopBit(b)
    /\ pc' = "A_plane"
    /\ UNCHANGED <<X, b, n, code, X0, driver, ret, t, i>>

\* Q > 1: P = Q - 1, i = 0
A2T_NextPlane ==
    /\ pc = "A_plane"
    /\ GtOne(Q)
    /\ i' = 0
    /\ pc' = "A_dim"
    /\ UNCHANGED <<X, b, n, code, X0, driver, ret, Q, t>>

\* i < n: invert or exchange (the exchange assigns t), i++
A2T_InvertExchange ==
    /\ pc = "A_dim"
    /\ i < n
    /\ X' = InvertExchange(X, i, Q)
    /\ t' = ExchangeTerm(X, i, Q, t)
    /\ i' = i + 1
    /\ UNCHANGED <<b, n, code, X0, driver, ret, pc, Q>>

\* i == n: Q >>= 1
A2T_EndPlane ==
    /\ pc = "A_dim"
    /\ ~(i < n)
    /\ Q' = Shr(Q, 1)
    /\ pc' = "A_plane"
    /\ UNCHANGED <<X, b, n, code, X0, driver, ret, t, i>>

\* Q <= 1: the Gray encode loop starts at i = 1
A2T_StartGray ==
    /\ pc = "A_plane"
    /\ ~GtOne(Q)
    /\ i' = 1
    /\ pc' = "A_gray"
    /\ UNCHANGED <<X, b, n, code, X0, driver, ret, Q, t>>

\* i < n: X[i] ^= X[i - 1], i++
A2T_GrayEncode ==
    /\ pc = "A_gray"
    /\ i < n
    /\ X' = GrayXor(X, i)
    /\ i' = i + 1
    /\ UNCHANGED <<b, n, code, X0, driver, ret, pc, Q, t>>

\* i >= n: t = 0, Q = M
A2T_StartCorrection ==
    /\ pc = "A_gray"
    /\ ~(i < n)
    /\ t' = Zero
    /\ Q' = TopBit(b)
    /\ pc' = "A_corr"
    /\ UNCHANGED <<X, b, n, code, X0, driver, ret, i>>

\* Q > 1: if (X[n - 1] & Q) t ^= Q - 1; Q >>= 1
A2T_Correction ==
    /\ pc = "A_corr"
    /\ GtOne(Q)
    /\ t' = Correction(X, n, Q, t)
    /\ Q' = Shr(Q, 1)
    /\ UNCHANGED <<X, b, n, code, X0, driver, ret, pc, i>>

\* Q <= 1: the last loop starts at i = 0
A2T_StartApply ==
    /\ pc = "A_corr"
    /\ ~GtOne(Q)
    /\ i' = 0
    /\ pc' = "A_apply"
    /\ UNCHANGED <<X, b, n, code, X0, driver, ret, Q, t>>

\* i < n: X[i] ^= t, i++
A2T_Apply ==
    /\ pc = "A_apply"
    /\ i < n
    /\ X' = [X EXCEPT ![i] = Xor(@, t)]
    /\ i' = i + 1
    /\ UNCHANGED <<b, n, code, X0, driver, ret, pc, Q, t>>

\* i >= n: return
A2T_Return ==
    /\ pc = "A_apply"
    /\ ~(i < n)
    /\ Return
    /\ UNCHANGED <<X, b, n, code, X0, driver>>

\* ------------------------------------------------------- TransposetoAxes

\* coord_t N = 2 << (b - 1); t = X[n - 1] >> 1; i = n - 1
T2A_Call ==
    /\ Calls("TransposetoAxes")
    /\ t' = Shr(X[n - 1], 1)
    /\ i' = n - 1
    /\ pc' = "T_gray"
    /\ UNCHANGED <<X, b, n, code, X0, driver, ret, Q>>

\* i > 0: X[i] ^= X[i - 1], i--
T2A_GrayDecode ==
    /\ pc = "T_gray"
    /\ i > 0
    /\ X' = GrayXor(X, i)
    /\ i' = i - 1
    /\ UNCHANGED <<b, n, code, X0, driver, ret, pc, Q, t>>

\* i == 0: X[0] ^= t; Q = 2
T2A_GrayFirst ==
    /\ pc = "T_gray"
    /\ ~(i > 0)
    /\ X' = [X EXCEPT ![0] = Xor(@, t)]
    /\ Q' = W(2)
    /\ pc' = "T_plane"
    /\ UNCHANGED <<b, n, code, X0, driver, ret, t, i>>

\* Q != N: P = Q - 1, i = n - 1
T2A_NextPlane ==
    /\ pc = "T_plane"
    /\ Q # EndBit(b)
    /\ i' = n - 1
    /\ pc' = "T_dim"
    /\ UNCHANGED <<X, b, n, code, X0, driver, ret, Q, t>>

\* i >= 0: invert or exchange (the exchange assigns t), i--
T2A_InvertExchange ==
    /\ pc = "T_dim"
    /\ i >= 0
    /\ X' = InvertExchange(X, i, Q)
    /\ t' = ExchangeTerm(X, i, Q, t)
    /\ i' = i - 1
    /\ UNCHANGED <<b, n, code, X0, driver, ret, pc, Q>>

\* i < 0: Q <<= 1
T2A_EndPlane ==
    /\ pc = "T_dim"
    /\ ~(i >= 0)
    /\ Q' = Shl(Q, 1)
    /\ pc' = "T_plane"
    /\ UNCHANGED <<X, b, n, code, X0, driver, ret, t, i>>

\* Q == N: return
T2A_Return ==
    /\ pc = "T_plane"
    /\ Q = EndBit(b)
    /\ Return
    /\ UNCHANGED <<X, b, n, code, X0, driver>>

\* ------------------------------------------------- the packing routines

\* unsigned int code = interleaveBits(X, b, n);
Interleave ==
    /\ Calls("interleaveBits")
    /\ code' = interleaveBits(X, b, n)
    /\ ret' = ret + 1
    /\ UNCHANGED <<X, b, n, X0, driver, pc, Q, t, i>>

\* uninterleaveBits(X, b, n, code);
Uninterleave ==
    /\ Calls("uninterleaveBits")
    /\ X' = uninterleaveBits(b, n, code)
    /\ ret' = ret + 1
    /\ UNCHANGED <<b, n, code, X0, driver, pc, Q, t, i>>

Next ==
    \/ A2T_Call
    \/ A2T_NextPlane
    \/ A2T_InvertExchange
    \/ A2T_EndPlane
    \/ A2T_StartGray
    \/ A2T_GrayEncode
    \/ A2T_StartCorrection
    \/ A2T_Correction
    \/ A2T_StartApply
    \/ A2T_Apply
    \/ A2T_Return
    \/ T2A_Call
    \/ T2A_GrayDecode
    \/ T2A_GrayFirst
    \/ T2A_NextPlane
    \/ T2A_InvertExchange
    \/ T2A_EndPlane
    \/ T2A_Return
    \/ Interleave
    \/ Uninterleave

Spec == Init /\ [][Next]_vars

\* ----------------------------------------------------- what the claims use

\* Every entry of the n-vector x is in [0, 2^b - 1].
InRange(x, nn, bb) == \A d \in 0 .. (nn - 1) : x[d] \subseteq 0 .. (bb - 1)

\* The caller's first call was f and exactly that call has returned.
FirstReturned(f) == driver[1] = f /\ ret = 1 /\ pc = "idle"

\* The running call was given a buffer with entries in [0, 2^b - 1]: it is
\* the caller's first call, or it follows only transforms of such a buffer.
GivenValidBuffer == ret = 0 \/ driver \in {AxesCalls, TransposeCalls}

\* a + 1, for a word other than 2^CoordBits - 1.
Inc(a) ==
    LET z == MinOf(Bits \ a)
    IN  (a \ (0 .. (z - 1))) \cup {z}

\* The scalar code laid out as section 4.3 of the specification states it:
\* bit k of the code is bit (k div n) of coordinate (n-1) - (k mod n).
LayoutCode(x, nn, bb) ==
    {k \in 0 .. (nn * bb - 1) : (k \div nn) \in x[(nn - 1) - (k % nn)]}

\* T(c): the transpose vector of the code c under the same layout.
LayoutVector(c, nn, bb) ==
    [j \in 0 .. (nn - 1) |-> {m \in 0 .. (bb - 1) : (m * nn + (nn - 1 - j)) \in c}]

\* The points p and q differ by exactly 1 in exactly one coordinate.
Neighbours(p, q, nn) ==
    \E d \in 0 .. (nn - 1) :
        /\ \/ p[d] # Bits /\ q[d] = Inc(p[d])
           \/ q[d] # Bits /\ p[d] = Inc(q[d])
        /\ \A e \in (0 .. (nn - 1)) \ {d} : p[e] = q[e]

\* X'[i] = X[0] xor ... xor X[i]
RECURSIVE PrefixXor(_, _)
PrefixXor(x, d) == IF d = 0 THEN x[0] ELSE Xor(PrefixXor(x, d - 1), x[d])

\* The number a string of binary digits, most significant first, denotes.
RECURSIVE BinValue(_)
BinValue(digits) ==
    IF digits = <<>> THEN 0
    ELSE 2 * BinValue(SubSeq(digits, 1, Len(digits) - 1)) + digits[Len(digits)]

\* The step machine and the transforms as functions agree on every call.
StepsAgree ==
    /\ FirstReturned("AxestoTranspose") => X = AxestoTranspose(X0, b, n)
    /\ FirstReturned("TransposetoAxes") => X = TransposetoAxes(X0, b, n)

\* ------------------------------------------------------------- the claims

\* C1: AxestoTranspose followed by TransposetoAxes with the same b and n, on
\* a vector of n entries in [0, 2^b - 1], 1 <= b <= CoordBits, leaves the
\* vector as it was.
RoundTripAxes ==
    (driver = AxesCalls /\ ret = 2 /\ pc = "idle") => X = X0

\* C1 witness: the round trip of a full-width buffer (b = CoordBits, where
\* N is 0) has returned.
RoundTripAxesWitness ==
    /\ driver = AxesCalls /\ ret = 2 /\ pc = "idle"
    /\ b = CoordBits /\ n = 2
    /\ X0[0] = {0, CoordBits - 1} /\ X0[1] = Bits
    /\ X = X0

\* C2: interleaveBits followed by uninterleaveBits with the same b and n
\* fills the buffer with the vector that was packed, for every n.
PackRoundTrip ==
    (driver = PackCalls /\ ret = 2) => X = X0

\* C3: for main()'s buffer (5, 10, 20), b = 5, n = 3, AxestoTranspose
\* followed by interleaveBits returns 7865.
KnownExampleCode ==
    (driver = MainCalls /\ X0 = MainX /\ b = MainB /\ n = MainN /\ ret >= 2)
        => Val(code) = 7865

\* C3 witness: main() has its code.
KnownExampleCodeWitness ==
    /\ driver = MainCalls /\ X0 = MainX /\ b = MainB /\ n = MainN
    /\ ret = 2 /\ pc = "idle"
    /\ code # Zero

\* main()'s printf arguments X[0] >> 4 & 1, X[1] >> 4 & 1, ... , X[2] >> 0 & 1:
\* the bits of the buffer level by level from bit 4 down to bit 0, each
\* level as the group (X[0], X[1], X[2]).
MainBitGroups(x) ==
    [k \in 1 .. (MainN * MainB) |->
        IF ((MainB - 1) - ((k - 1) \div MainN)) \in x[(k - 1) % MainN]
        THEN 1 ELSE 0]

\* main() holds the transpose of its buffer and the code of that transpose.
MainHasCode ==
    /\ driver = MainCalls /\ X0 = MainX /\ b = MainB /\ n = MainN
    /\ ret = 2 /\ pc = "idle"

\* C4, as stated: the bit groups of the transpose of (5, 10, 20) read
\* 111 110 100 001 101, and that string is the binary form of the code 7865.
BitGroupsAsStated ==
    MainHasCode =>
        /\ MainBitGroups(X) = <<1, 1, 1, 1, 1, 0, 1, 0, 0, 0, 0, 1, 1, 0, 1>>
        /\ BinValue(MainBitGroups(X)) = Val(code)
        /\ Val(code) = 7865

\* C4, amended: the bit groups of the transpose of (5, 10, 20) read
\* 001 111 010 111 001, and that string is the binary form of the code 7865.
BitGroupsOfExample ==
    MainHasCode =>
        /\ MainBitGroups(X) = <<0, 0, 1, 1, 1, 1, 0, 1, 0, 1, 1, 1, 0, 0, 1>>
        /\ BinValue(MainBitGroups(X)) = Val(code)
        /\ Val(code) = 7865

\* C4 witness: main() holds the transpose (10, 14, 27) and its code.
BitGroupsWitness ==
    /\ MainHasCode
    /\ X[0] = W(10) /\ X[1] = W(14) /\ X[2] = W(27)

\* C5: bit k of the value interleaveBits returns is bit (k div n) of
\* coordinate X[(n-1) - (k mod n)] for k < n*b, and no bit from n*b up is set.
InterleaveLayout ==
    (driver = PackCalls /\ ret >= 1) => code = LayoutCode(X0, n, b)

\* C6: for n = 1, interleaveBits returns the coordinate unchanged and
\* uninterleaveBits fills the buffer with the code unchanged.
SingleDimPacking ==
    /\ (driver = PackCalls /\ n = 1 /\ ret >= 1) => code = X0[0]
    /\ (driver = UnpackCalls /\ n = 1 /\ ret = 1) => X[0] = code

\* C7: for n = 1, AxestoTranspose leaves (x) equal to (x), and so does
\* TransposetoAxes.
SingleDimTransforms ==
    /\ (n = 1 /\ FirstReturned("AxestoTranspose")) => X = X0
    /\ (n = 1 /\ FirstReturned("TransposetoAxes")) => X = X0

\* C7 witness: AxestoTranspose has returned on a one-element buffer whose
\* planes all take the invert branch.
SingleDimTransformsWitness ==
    /\ n = 1 /\ b = MaxB /\ FirstReturned("AxestoTranspose")
    /\ X0[0] = 0 .. (MaxB - 1)
    /\ X = X0

\* The transforms keep every coordinate within b bits, at every step.
TransformsWithinBits ==
    driver \in {AxesCalls, TransposeCalls} => InRange(X, n, b)

\* C8: (i) every step of AxestoTranspose and of TransposetoAxes keeps the
\* entries in [0, 2^b - 1]; (ii) uninterleaveBits of a code in
\* [0, 2^(n*b) - 1] leaves every entry in [0, 2^b - 1].
CoordinatesWithinBits ==
    /\ TransformsWithinBits
    /\ (driver = UnpackCalls /\ ret = 1) => InRange(X, n, b)

\* C9: the points TransposetoAxes decodes from the adjacent codes k and
\* k + 1, k in [0, 2^(n*b) - 2], n*b within the scalar width, differ by
\* exactly 1 in exactly one coordinate.
Locality ==
    (/\ FirstReturned("TransposetoAxes")
     /\ n * b <= CoordBits
     /\ LayoutCode(X0, n, b) # 0 .. (n * b - 1))
        => Neighbours(X,
                      TransposetoAxes(
                          LayoutVector(Inc(LayoutCode(X0, n, b)), n, b), b, n),
                      n)

\* C9 witness: the code 011 111 of n = 3, b = 2 has been decoded; its
\* successor 100 000 differs from it in every bit.
LocalityWitness ==
    /\ FirstReturned("TransposetoAxes")
    /\ n = 3 /\ b = 2
    /\ LayoutCode(X0, n, b) = 0 .. 4

\* C10: with b = 1 neither transform runs its invert/exchange loop body,
\* both correction terms t are 0, AxestoTranspose yields the prefix XOR
\* chain and TransposetoAxes yields X[0], X[1] ^ X[0], ..., X[n-1] ^ X[n-2].
DegenerateOneBit ==
    b = 1 =>
        /\ pc \notin {"A_dim", "T_dim"}
        /\ (pc \in {"A_apply", "T_gray"} /\ GivenValidBuffer) => t = Zero
        /\ FirstReturned("AxestoTranspose")
               => X = [d \in 0 .. (n - 1) |-> PrefixXor(X0, d)]
        /\ FirstReturned("TransposetoAxes")
               => X = [d \in 0 .. (n - 1) |->
                          IF d = 0 THEN X0[0] ELSE Xor(X0[d], X0[d - 1])]

\* C10 witness: AxestoTranspose has returned on (1, 1, 1, 1) with b = 1.
DegenerateOneBitWitness ==
    /\ b = 1 /\ n = MaxN /\ FirstReturned("AxestoTranspose")
    /\ \A d \in 0 .. (n - 1) : X0[d] = W(1)
    /\ \A d \in 0 .. (n - 1) : X[d] = IF d % 2 = 0 THEN W(1) ELSE Zero

=============================================================================
